---------------------------- MODULE Spec2Model ----------------------------
(***************************************************************************)
(* Model of mediawords/solr/query.py: the recursive-descent parser         *)
(* (__parse_tokens, parse), the tree filter (filter_tree) and the two      *)
(* emitters (tsquery, re).                                                 *)
(*                                                                         *)
(* The parser is a state machine over the token list and an explicit stack *)
(* of __parse_tokens invocations; one action is one pass through the body  *)
(* of the while loop (or the return that ends it).  The same step is       *)
(* available as an operator (parse_tokens_step) so that RunParse computes  *)
(* parse() of any token list.                                              *)
(***************************************************************************)
EXTENDS Integers, Sequences, FiniteSets, TLC

VARIABLES
    input,      \* the token list __get_tokens produced for "( " + query + " )"
    tokens,     \* the list `tokens` of parse(), consumed by pop(0) / insert(0, _)
    stack,      \* the active __parse_tokens invocations, innermost last
    result,     \* outcome of parse(): running, returned (a tree or None), or raised
    heap,       \* the parse nodes alive after parse(): id -> node
    root,       \* id of the tree parse() returned
    filtered,   \* what the caller's last filter_tree() call gave, which it holds
    ts_result,  \* what the last tsquery() call on the tree gave
    re_result,  \* what the last re() call on the tree gave
    last        \* the last call the caller made, and with which filter function

parser_vars == <<input, tokens, stack, result>>
filter_vars == <<heap, root, filtered, ts_result, re_result, last>>

(***************************************************************************)
(* Token types and placeholders                                            *)
(***************************************************************************)
T_OPEN == "open paren"
T_CLOSE == "close paren"
T_PHRASE == "phrase"
T_AND == "and"
T_OR == "or"
T_NOT == "not"
T_FIELD == "field"
T_TERM == "term"
T_PLUS == "plus"
T_NOOP == "noop"

NOOP_PLACEHOLDER == "__NOOP__"
FIELD_PLACEHOLDER == "__FIELD__"
WILD_PLACEHOLDER == "__WILD__"

\* A token value is the sequence of the pieces of its text, so that
\* endswith(), replace() and re.sub() on the placeholders act on pieces.
Token(token_value, token_type) ==
    [token_value |-> token_value, token_type |-> token_type]

RECURSIVE Concat(_)
Concat(pieces) ==
    IF pieces = <<>> THEN "" ELSE Head(pieces) \o Concat(Tail(pieces))

\* str.replace(placeholder, '') / re.sub(placeholder, '', value)
RemovePiece(pieces, placeholder) ==
    Concat(SelectSeq(pieces, LAMBDA p : p # placeholder))

EndsWith(pieces, placeholder) ==
    pieces # <<>> /\ pieces[Len(pieces)] = placeholder

(***************************************************************************)
(* Parse nodes.  Every node carries every attribute, as the classes do     *)
(* (AbstractParseNode's class attributes); the operand of a Not or Field   *)
(* node is kept as the one element of operands.  None is Python's None.    *)
(***************************************************************************)
NoneType == "NoneType"
TermNodeT == "TermNode"
AndNodeT == "AndNode"
OrNodeT == "OrNode"
NotNodeT == "NotNode"
FieldNodeT == "FieldNode"
NoopNodeT == "NoopNode"

None ==
    [type |-> NoneType, term |-> "", wildcard |-> FALSE, phrase |-> FALSE,
     field |-> "", operands |-> <<>>]

TermNode(term, wildcard, phrase) ==
    [type |-> TermNodeT, term |-> term, wildcard |-> wildcard, phrase |-> phrase,
     field |-> "", operands |-> <<>>]

BooleanNode(boolean_type, operands) ==
    [type |-> boolean_type, term |-> "", wildcard |-> FALSE, phrase |-> FALSE,
     field |-> "", operands |-> operands]

NotNode(operand) ==
    [type |-> NotNodeT, term |-> "", wildcard |-> FALSE, phrase |-> FALSE,
     field |-> "", operands |-> <<operand>>]

FieldNode(field, operand) ==
    [type |-> FieldNodeT, term |-> "", wildcard |-> FALSE, phrase |-> FALSE,
     field |-> field, operands |-> <<operand>>]

NoopNode ==
    [type |-> NoopNodeT, term |-> "", wildcard |-> FALSE, phrase |-> FALSE,
     field |-> "", operands |-> <<>>]

\* `operand.parent = self` in a constructor raises AttributeError on None.
SetsParentOfNone(operands) ==
    \E i \in 1..Len(operands) : operands[i] = None


(***************************************************************************)
(* __parse_tokens as a step function on a configuration                    *)
(*   [tokens, stack, result]                                               *)
(* A frame is one invocation: its locals, the list it reads (the caller's  *)
(* shared list, or its own one-element list [next_token]) and the call     *)
(* site it returns to.                                                     *)
(***************************************************************************)
Running == [status |-> "running", tree |-> None]
Returned(clause) == [status |-> "returned", tree |-> clause]
Raised(error) == [status |-> error, tree |-> None]

ParseSyntaxError == "ParseSyntaxError"
AttributeError == "AttributeError"
IndexError == "IndexError"

Frame(want_type, own, own_tokens, site, field_name) ==
    [want_type |-> want_type, clause |-> None, boolean_clause |-> None,
     hanging_boolean |-> FALSE, own |-> own, own_tokens |-> own_tokens,
     site |-> site, field_name |-> field_name]

\* want_type lists of the source, as sets
WantDefault == {T_OPEN, T_PHRASE, T_NOT, T_TERM}
WantInGroup == {T_OPEN, T_PHRASE, T_NOT, T_FIELD, T_TERM, T_NOOP, T_CLOSE}
WantAfterGroup ==
    {T_OPEN, T_PHRASE, T_NOT, T_FIELD, T_TERM, T_NOOP, T_CLOSE, T_AND, T_OR, T_PLUS}
WantAfterOperand == {T_CLOSE, T_AND, T_OR, T_PLUS}
WantAfterBoolean ==
    {T_OPEN, T_PHRASE, T_NOT, T_FIELD, T_TERM, T_NOOP, T_CLOSE, T_PLUS}
WantInFieldGroup == {T_PHRASE, T_NOT, T_TERM, T_NOOP, T_CLOSE, T_PLUS}
WantFieldOperand == {T_PHRASE, T_TERM, T_NOOP}
WantInNotGroup == {T_FIELD, T_PHRASE, T_NOT, T_TERM, T_NOOP, T_CLOSE, T_PLUS}
WantNotField == {T_FIELD}
WantNotOperand == {T_PHRASE, T_TERM, T_NOOP, T_FIELD}

Top(c) == c.stack[Len(c.stack)]

\* the list the innermost invocation calls `tokens`
CurTokens(c) == IF Top(c).own THEN Top(c).own_tokens ELSE c.tokens

SetTop(c, f) == [c EXCEPT !.stack[Len(c.stack)] = f]

SetCurTokens(c, toks) ==
    IF Top(c).own
    THEN [c EXCEPT !.stack[Len(c.stack)].own_tokens = toks]
    ELSE [c EXCEPT !.tokens = toks]

Raise(c, error) == [c EXCEPT !.result = Raised(error)]

\* lines 391-401: the hanging boolean is taken over, or an implicit OR / AND
\* token is synthesized and the popped token pushed back
ImplicitOrTypes == {T_OPEN, T_PHRASE, T_TERM, T_NOOP, T_FIELD}

TakesHanging(f) == f.hanging_boolean

InsertsOr(f, token) ==
    ~f.hanging_boolean /\ f.clause # None /\ token.token_type \in ImplicitOrTypes

InsertsAnd(f, token) ==
    ~f.hanging_boolean /\ f.clause # None /\ token.token_type = T_NOT

CurrentToken(f, token) ==
    IF InsertsOr(f, token) THEN Token(<<"or">>, T_OR)
    ELSE IF InsertsAnd(f, token) THEN Token(<<"and">>, T_AND)
    ELSE token

\* line 388: a PLUS with no clause yet, or with an And/Or clause, is skipped
PlusIsSkipped(f, token) ==
    /\ token.token_type = T_PLUS
    /\ (f.clause = None \/ f.clause.type \in {AndNodeT, OrNodeT})

\* lines 363-369
check_type(checked_token, checked_want_type) ==
    checked_token.token_type \in checked_want_type

\* lines 471-480: CLOSE is appended to want_type and the new clause becomes
\* the next operand of the pending boolean clause
AttachOperandNested(boolean_clause, clause) ==
    [boolean_clause EXCEPT !.operands = Append(@, clause)]

AttachOperand(boolean_clause, clause) ==
    IF boolean_clause.type = clause.type
    THEN [boolean_clause EXCEPT !.operands = @ \o clause.operands]
    ELSE [boolean_clause EXCEPT !.operands = Append(@, clause)]

EndOfIteration(f) ==
    LET g == [f EXCEPT !.want_type = @ \cup {T_CLOSE}] IN
    IF g.boolean_clause # None
    THEN [g EXCEPT !.clause = AttachOperand(g.boolean_clause, g.clause),
                   !.boolean_clause = None]
    ELSE g

\* The frame after lines 391-393 (hanging boolean taken over), the token
\* after 394-401, and the configuration with the token list after pop(0)
\* and a possible insert(0, token).
FrameAtCheck(f) ==
    IF f.hanging_boolean
    THEN [f EXCEPT !.boolean_clause = f.clause, !.hanging_boolean = FALSE]
    ELSE f

AfterPop(c) ==
    LET f == Top(c)
        toks == CurTokens(c)
        token == Head(toks)
        c1 == SetTop(c, FrameAtCheck(f))
    IN  IF InsertsOr(f, token) \/ InsertsAnd(f, token)
        THEN c1
        ELSE SetCurTokens(c1, Tail(toks))

\* `return clause` (line 488): the invocation ends and its caller goes on
\* after the call: line 406 (OPEN), 453 (FIELD) or 466 (NOT), then 471-480.
ReturnClause(c, clause) ==
    LET callee == Top(c)
        rest == SubSeq(c.stack, 1, Len(c.stack) - 1)
    IN  IF rest = <<>>
        THEN [c EXCEPT !.stack = rest, !.result = Returned(clause)]
        ELSE
          LET caller == rest[Len(rest)]
              c1 == [c EXCEPT !.stack = rest]
          IN  IF callee.site = "open"
              THEN SetTop(c1, EndOfIteration(
                       [caller EXCEPT !.clause = clause,
                                      !.want_type = WantAfterGroup]))
              ELSE IF clause = None
              THEN Raise(c1, AttributeError)
              ELSE IF callee.site = "field"
              THEN SetTop(c1, EndOfIteration(
                       [caller EXCEPT !.clause = FieldNode(callee.field_name, clause)]))
              ELSE SetTop(c1, EndOfIteration(
                       [caller EXCEPT !.clause = NotNode(clause)]))

Call(c, frame) == [c EXCEPT !.stack = Append(@, frame)]


(***************************************************************************)
(* One pass through the loop body, by the branch the pass takes            *)
(***************************************************************************)
\* line 380 false: the loop ends and the clause is returned
OnLoopEnd(c) == ReturnClause(c, Top(c).clause)

\* lines 385-389: pop(0), continue
OnSkipPlus(c) == SetCurTokens(c, Tail(CurTokens(c)))

\* line 403 raising
OnCheckTypeFails(c) == Raise(AfterPop(c), ParseSyntaxError)

\* lines 405-407: the group is parsed by a nested invocation on the same list
OnOpen(c) ==
    Call(AfterPop(c), Frame(WantInGroup, FALSE, <<>>, "open", ""))

\* lines 409-410: break, then return clause
OnClose(c) ==
    LET c1 == AfterPop(c) IN ReturnClause(c1, Top(c1).clause)

\* lines 412-414
OnNoop(c) ==
    LET c1 == AfterPop(c) IN
    SetTop(c1, EndOfIteration(
        [Top(c1) EXCEPT !.want_type = WantAfterOperand, !.clause = NoopNode]))

\* lines 416-423
OnTerm(c) ==
    LET token == Head(CurTokens(c))
        c1 == AfterPop(c)
        wildcard == EndsWith(token.token_value, WILD_PLACEHOLDER)
        token_value == IF wildcard
                       THEN RemovePiece(token.token_value, WILD_PLACEHOLDER)
                       ELSE Concat(token.token_value)
    IN  SetTop(c1, EndOfIteration(
            [Top(c1) EXCEPT !.want_type = WantAfterOperand,
                            !.clause = TermNode(token_value, wildcard, FALSE)]))

\* lines 425-427
OnPhrase(c) ==
    LET token == Head(CurTokens(c))
        c1 == AfterPop(c)
    IN  SetTop(c1, EndOfIteration(
            [Top(c1) EXCEPT !.want_type = WantAfterOperand,
                            !.clause = TermNode(Concat(token.token_value), FALSE, TRUE)]))

\* lines 430-440: an explicit or synthesized AND / OR, or a PLUS not skipped
NewBooleanOperands(clause, node_type) ==
    IF clause.type = node_type THEN clause.operands ELSE <<clause>>

OnBoolean(c) ==
    LET f == Top(c)
        token == CurrentToken(f, Head(CurTokens(c)))
        c1 == AfterPop(c)
        node_type == IF token.token_type = T_OR THEN OrNodeT ELSE AndNodeT
        operands == NewBooleanOperands(Top(c1).clause, node_type)
    IN  IF SetsParentOfNone(operands)
        THEN Raise(c1, AttributeError)
        ELSE SetTop(c1, EndOfIteration(
                 [Top(c1) EXCEPT !.want_type = WantAfterBoolean,
                                 !.clause = BooleanNode(node_type, operands),
                                 !.hanging_boolean = TRUE]))

\* lines 442-449: the field's operand is parsed by a nested invocation, on
\* the same list after an OPEN, else on the one-element list [next_token]
OnField(c) ==
    LET token == Head(CurTokens(c))
        c1 == AfterPop(c)
        c2 == SetTop(c1, [Top(c1) EXCEPT !.want_type = WantAfterOperand])
        field_name == RemovePiece(token.token_value, FIELD_PLACEHOLDER)
        toks == CurTokens(c2)
    IN  IF toks = <<>>
        THEN Raise(c2, IndexError)
        ELSE
          LET next_token == Head(toks)
              c3 == SetCurTokens(c2, Tail(toks))
          IN  IF next_token.token_type = T_OPEN
              THEN Call(c3, Frame(WantInFieldGroup, FALSE, <<>>, "field", field_name))
              ELSE Call(c3, Frame(WantFieldOperand, TRUE, <<next_token>>,
                                  "field", field_name))

\* lines 455-465: the operand of NOT is parsed by a nested invocation: on the
\* same list after an OPEN, on the same list with the FIELD token pushed
\* back, else on the one-element list [next_token]
OnNot(c) ==
    LET c1 == AfterPop(c)
        c2 == SetTop(c1, [Top(c1) EXCEPT !.want_type = WantAfterOperand])
        toks == CurTokens(c2)
    IN  IF toks = <<>>
        THEN Raise(c2, IndexError)
        ELSE
          LET next_token == Head(toks)
              c3 == SetCurTokens(c2, Tail(toks))
          IN  IF next_token.token_type = T_OPEN
              THEN Call(c3, Frame(WantInNotGroup, FALSE, <<>>, "not", ""))
              ELSE IF next_token.token_type = T_FIELD
              THEN Call(c2, Frame(WantNotField, FALSE, <<>>, "not field", ""))
              ELSE Call(c3, Frame(WantNotOperand, TRUE, <<next_token>>, "not", ""))

\* Which branch the next pass takes
Branch(c) ==
    LET f == Top(c)
        toks == CurTokens(c)
    IN  IF toks = <<>> THEN "loop end"
        ELSE IF PlusIsSkipped(f, Head(toks)) THEN "skip plus"
        ELSE LET token == CurrentToken(f, Head(toks)) IN
             IF ~check_type(token, f.want_type) THEN "check_type fails"
             ELSE IF token.token_type \in {T_AND, T_PLUS, T_OR} THEN "boolean"
             ELSE token.token_type

parse_tokens_step(c) ==
    LET b == Branch(c) IN
    CASE b = "loop end" -> OnLoopEnd(c)
      [] b = "skip plus" -> OnSkipPlus(c)
      [] b = "check_type fails" -> OnCheckTypeFails(c)
      [] b = "boolean" -> OnBoolean(c)
      [] b = T_OPEN -> OnOpen(c)
      [] b = T_CLOSE -> OnClose(c)
      [] b = T_NOOP -> OnNoop(c)
      [] b = T_TERM -> OnTerm(c)
      [] b = T_PHRASE -> OnPhrase(c)
      [] b = T_FIELD -> OnField(c)
      [] b = T_NOT -> OnNot(c)

\* parse() after __get_tokens: __parse_tokens(tokens) with the default want_type
ParseCall(toks) ==
    [tokens |-> toks,
     stack |-> <<Frame(WantDefault, FALSE, <<>>, "parse", "")>>,
     result |-> Running]

RECURSIVE RunToEnd(_)
RunToEnd(c) ==
    IF c.result.status # "running" THEN c.result ELSE RunToEnd(parse_tokens_step(c))

\* the outcome of parse() on a token list
RunParse(toks) == RunToEnd(ParseCall(toks))


(***************************************************************************)
(* The heap of parse nodes that filter_tree, tsquery and re work on.       *)
(* A node id is an index of the heap; 0 is None.  Nodes carry the memo     *)
(* filtered_by_function.  The `parent` back-reference is left out: no      *)
(* method reads it.                                                        *)
(***************************************************************************)
NoFilter == "None"
node_is_field_or_noop_name == "node_is_field_or_noop"
node_is_field_or_noop_or_not_name == "node_is_field_or_noop_or_not"
FilterFunctions == {node_is_field_or_noop_name, node_is_field_or_noop_or_not_name}

HeapNode(node, operand_ids) ==
    [type |-> node.type, term |-> node.term, wildcard |-> node.wildcard,
     phrase |-> node.phrase, field |-> node.field, operands |-> operand_ids,
     filtered_by_function |-> NoFilter]

\* object construction: the new node gets the next id
Alloc(h, node, operand_ids) ==
    [heap |-> Append(h, HeapNode(node, operand_ids)), ret |-> Len(h) + 1]

\* The tree parse() returned, as heap objects (operands before their parent)
RECURSIVE Load(_, _), LoadOperands(_, _, _)
Load(h, tree) ==
    IF tree = None THEN [heap |-> h, ret |-> 0]
    ELSE LET r == LoadOperands(h, tree.operands, <<>>) IN
         Alloc(r.heap, tree, r.ret)

LoadOperands(h, operands, ids) ==
    IF operands = <<>> THEN [heap |-> h, ret |-> ids]
    ELSE LET r == Load(h, Head(operands)) IN
         LoadOperands(r.heap, Tail(operands), Append(ids, r.ret))

\* The tree below a heap node, as a value (the memo is not part of it)
RECURSIVE TreeAt(_, _)
TreeAt(h, id) ==
    IF id = 0 THEN None
    ELSE [type |-> h[id].type, term |-> h[id].term, wildcard |-> h[id].wildcard,
          phrase |-> h[id].phrase, field |-> h[id].field,
          operands |-> [i \in 1..Len(h[id].operands) |-> TreeAt(h, h[id].operands[i])]]

\* ids of the nodes of the tree below id
RECURSIVE NodesAt(_, _)
NodesAt(h, id) ==
    IF id = 0 THEN {}
    ELSE {id} \cup UNION {NodesAt(h, h[id].operands[i]) : i \in 1..Len(h[id].operands)}

(***************************************************************************)
(* The two canonical predicates (lines 90-110)                             *)
(***************************************************************************)
node_is_field_or_noop(node) ==
    IF node.type = FieldNodeT /\ node.field # "sentence" THEN TRUE
    ELSE IF node.type = NoopNodeT THEN TRUE
    ELSE FALSE

node_is_field_or_noop_keeping_not(node) ==
    IF node.type = FieldNodeT /\ node.field # "sentence" THEN TRUE
    ELSE IF node.type = NoopNodeT THEN TRUE
    ELSE FALSE

node_is_field_or_noop_or_not(node) ==
    IF node.type = FieldNodeT /\ node.field # "sentence" THEN TRUE
    ELSE IF node.type \in {NoopNodeT, NotNodeT} THEN TRUE
    ELSE FALSE

ApplyFilterFunction(filter_function, node) ==
    IF filter_function = node_is_field_or_noop_name
    THEN node_is_field_or_noop(node)
    ELSE node_is_field_or_noop_or_not(node)

(***************************************************************************)
(* filter_tree (lines 115-148) and the _filter_node_children methods.      *)
(* A call returns [heap, ret, error]: the heap after it, the id returned   *)
(* (0 for None) and the exception raised ("" for none).                    *)
(***************************************************************************)
Ok(h, ret) == [heap |-> h, ret |-> ret, error |-> ""]
Fails(h, error) == [heap |-> h, ret |-> 0, error |-> error]

\* line 147: filtered_tree.filtered_by_function = filter_function
RecordFilter(h, id, filter_function) ==
    [h EXCEPT ![id].filtered_by_function = filter_function]

\* lines 125-128
BooleanFilteredInPlace(h, self, filtered_operands) ==
    IF Len(filtered_operands) > 0
    THEN Ok([h EXCEPT ![self].operands = filtered_operands], self)
    ELSE Ok(h, 0)

BooleanFromFiltered(h, self, filtered_operands) ==
    IF Len(filtered_operands) > 0
    THEN LET r == Alloc(h, BooleanNode(h[self].type, <<>>), filtered_operands)
         IN  Ok(r.heap, r.ret)
    ELSE Ok(h, 0)

\* lines 217, 352: a leaf returns a copy of itself
CopyLeaf(h, self) ==
    LET r == Alloc(h, [h[self] EXCEPT !.operands = <<>>], <<>>) IN Ok(r.heap, r.ret)

\* lines 303, 332: Not / Field around the filtered operand, or None
WrapFiltered(h, self, filtered_operand) ==
    IF filtered_operand # 0
    THEN LET r == Alloc(h, [h[self] EXCEPT !.operands = <<>>], <<filtered_operand>>)
         IN  Ok(r.heap, r.ret)
    ELSE Ok(h, 0)

\* line 137: the memo test
FilteredByNothing(node, filter_function) == FALSE

FilteredBySame(node, filter_function) ==
    node.filtered_by_function = filter_function

RECURSIVE filter_tree(_, _, _), filter_boolean_node_children(_, _, _, _, _)
filter_tree(h, self, filter_function) ==
    IF self = 0 THEN Fails(h, AttributeError)
    ELSE IF FilteredBySame(h[self], filter_function) THEN Ok(h, self)
    ELSE IF ApplyFilterFunction(filter_function, h[self]) THEN Ok(h, 0)
    ELSE
      LET r == IF h[self].type \in {AndNodeT, OrNodeT}
               THEN filter_boolean_node_children(h, self, filter_function,
                                                 h[self].operands, <<>>)
               ELSE IF h[self].type \in {NotNodeT, FieldNodeT}
               THEN LET o == filter_tree(h, h[self].operands[1], filter_function)
                    IN  IF o.error # "" THEN o
                        ELSE WrapFiltered(o.heap, self, o.ret)
               ELSE CopyLeaf(h, self)
      IN  IF r.error = "" /\ r.ret # 0
          THEN Ok(RecordFilter(r.heap, r.ret, filter_function), r.ret)
          ELSE r

\* lines 119-128: the loop over self.operands, then the new boolean node
filter_boolean_node_children(h, self, filter_function, operands, filtered_operands) ==
    IF operands = <<>> THEN BooleanFromFiltered(h, self, filtered_operands)
    ELSE LET o == filter_tree(h, Head(operands), filter_function) IN
         IF o.error # "" THEN o
         ELSE filter_boolean_node_children(
                  o.heap, self, filter_function, Tail(operands),
                  IF o.ret # 0 THEN Append(filtered_operands, o.ret)
                  ELSE filtered_operands)

(***************************************************************************)
(* Emitters.  A call ends as [heap, status, text]: status "returned" with  *)
(* the string, or the exception class with its message.                    *)
(***************************************************************************)
ValueError == "ValueError"

MsgEmptyQuery == "query is empty without fields or ranges"
MsgEmptyPhrase == "empty phrase not allowed"
MsgNotInRe == "not operations not supported for re()"
MsgFieldNotFiltered == "non-sentence field nodes should have been filtered"
MsgNoopNotFiltered == "noop nodes should have been filtered"
MsgNoneType == "'NoneType' object has no attribute"

Emitted(h, text) == [heap |-> h, status |-> "returned", text |-> text]
EmitFails(h, error, message) == [heap |-> h, status |-> error, text |-> message]

\* The phrase literals of the inputs.  shlex.split(term)[0] takes the quotes
\* off; re.split('\W+', _) without the empty strings gives the words.
PhraseHelloWorld == "\"hello world\""
PhraseEmpty == "\"\""

PhraseWords(term) ==
    IF term = PhraseHelloWorld THEN <<"hello", "world">>
    ELSE IF term = PhraseEmpty THEN <<>>
    ELSE <<term>>

RECURSIVE JoinStrings(_, _)
JoinStrings(strings, connector) ==
    IF strings = <<>> THEN ""
    ELSE IF Len(strings) = 1 THEN strings[1]
    ELSE strings[1] \o connector \o JoinStrings(Tail(strings), connector)

tsquery_connector(type) == IF type = AndNodeT THEN "&" ELSE "|"

\* lines 185-188: a TermNode for each word of the phrase
RECURSIVE AllocTerms(_, _, _)
AllocTerms(h, words, ids) ==
    IF words = <<>> THEN [heap |-> h, ret |-> ids]
    ELSE LET r == Alloc(h, TermNode(Head(words), FALSE, FALSE), <<>>) IN
         AllocTerms(r.heap, Tail(words), Append(ids, r.ret))

\* line 195
TermText(node) == IF ~node.wildcard THEN node.term ELSE node.term \o ":*"

\* line 240
BooleanTextCollapsed(type, texts) ==
    IF Len(texts) = 1 THEN texts[1]
    ELSE "( " \o JoinStrings(texts, " " \o tsquery_connector(type) \o " ") \o " )"

BooleanText(type, texts) ==
    "( " \o JoinStrings(texts, " " \o tsquery_connector(type) \o " ") \o " )"

RECURSIVE get_tsquery(_, _), get_tsquery_operands(_, _, _)
get_tsquery(h, self) ==
    IF self = 0 THEN EmitFails(h, AttributeError, MsgNoneType)
    ELSE
      LET node == h[self] IN
      CASE node.type = TermNodeT ->
             IF node.phrase
             THEN LET t == AllocTerms(h, PhraseWords(node.term), <<>>) IN
                  IF Len(t.ret) = 0
                  THEN EmitFails(t.heap, ParseSyntaxError, MsgEmptyPhrase)
                  ELSE LET a == Alloc(t.heap, BooleanNode(AndNodeT, <<>>), t.ret)
                       IN  get_tsquery(a.heap, a.ret)
             ELSE Emitted(h, TermText(node))
        [] node.type \in {AndNodeT, OrNodeT} ->
             LET r == get_tsquery_operands(h, node.operands, <<>>) IN
             IF r.status # "returned" THEN r
             ELSE Emitted(r.heap, BooleanText(node.type, r.text))
        [] node.type = NotNodeT ->
             LET r == get_tsquery(h, node.operands[1]) IN
             IF r.status # "returned" THEN r
             ELSE Emitted(r.heap, "!" \o r.text)
        [] node.type = FieldNodeT ->
             IF node.field = "sentence"
             THEN get_tsquery(h, node.operands[1])
             ELSE EmitFails(h, ValueError, MsgFieldNotFiltered)
        [] node.type = NoopNodeT ->
             EmitFails(h, ValueError, MsgNoopNotFiltered)

\* map(lambda x: x.get_tsquery(), self.operands): here text is the list
get_tsquery_operands(h, operands, texts) ==
    IF operands = <<>> THEN Emitted(h, texts)
    ELSE LET r == get_tsquery(h, Head(operands)) IN
         IF r.status # "returned" THEN r
         ELSE get_tsquery_operands(r.heap, Tail(operands), Append(texts, r.text))

\* re.escape() of a term of word characters; lines 199-211 for a phrase
ReEscape(term) == term

TermRe(node) ==
    IF node.phrase
    THEN "[[:<:]]" \o JoinStrings(PhraseWords(node.term), "[[:space:]]+")
    ELSE "[[:<:]]" \o ReEscape(node.term)

\* line 268
AndRe(a, b) ==
    "(?: (?: " \o a \o " .* " \o b \o " ) | (?: " \o b \o " .* " \o a \o " ) )"

\* get_re assigns no attribute and constructs no node: the heap is only read
RECURSIVE get_re(_, _), and_get_re(_, _), get_re_operands(_, _, _)
get_re(h, self) ==
    IF self = 0 THEN EmitFails(h, AttributeError, MsgNoneType)
    ELSE
      LET node == h[self] IN
      CASE node.type = TermNodeT -> Emitted(h, TermRe(node))
        [] node.type = AndNodeT -> and_get_re(h, node.operands)
        [] node.type = OrNodeT ->
             LET r == get_re_operands(h, node.operands, <<>>) IN
             IF r.status # "returned" THEN r
             ELSE Emitted(h, "(?: " \o JoinStrings(r.text, " | ") \o " )")
        [] node.type = NotNodeT -> EmitFails(h, ParseSyntaxError, MsgNotInRe)
        [] node.type = FieldNodeT ->
             IF node.field = "sentence"
             THEN get_re(h, node.operands[1])
             ELSE EmitFails(h, ValueError, MsgFieldNotFiltered)
        [] node.type = NoopNodeT ->
             EmitFails(h, ValueError, MsgNoopNotFiltered)

\* AndNode.get_re(operands), lines 259-268
and_get_re(h, operands) ==
    IF operands = <<>> THEN EmitFails(h, IndexError, "list index out of range")
    ELSE IF Len(operands) = 1 THEN get_re(h, operands[1])
    ELSE LET a == get_re(h, operands[1]) IN
         IF a.status # "returned" THEN a
         ELSE LET b == and_get_re(h, Tail(operands)) IN
              IF b.status # "returned" THEN b
              ELSE Emitted(h, AndRe(a.text, b.text))

get_re_operands(h, operands, texts) ==
    IF operands = <<>> THEN Emitted(h, texts)
    ELSE LET r == get_re(h, Head(operands)) IN
         IF r.status # "returned" THEN r
         ELSE get_re_operands(h, Tail(operands), Append(texts, r.text))

(***************************************************************************)
(* The regex get_re emits, as a structure: a word pattern, `x .* y`, or     *)
(* alternatives `(?: x | y )`.  PatternText writes it as get_re does.       *)
(***************************************************************************)
\* lines 211, 213: '[[:<:]]' + term
WordPattern(word) == [kind |-> "word", word |-> word, parts |-> <<>>]

\* line 281: '(?: ' + ' | '.join(...) + ' )'
OrPattern(parts) == [kind |-> "alt", word |-> "", parts |-> parts]

\* line 268: '(?: (?: %s .* %s ) | (?: %s .* %s ) )' % (a, b, b, a)
AndPattern(a, b) ==
    OrPattern(<<[kind |-> "seq", word |-> "", parts |-> <<a, b>>],
                [kind |-> "seq", word |-> "", parts |-> <<b, a>>]>>)

\* get_re of a filtered tree of Term, And, Or and sentence Field nodes
RECURSIVE re_pattern(_, _), and_re_pattern(_, _)
re_pattern(h, self) ==
    LET node == h[self] IN
    CASE node.type = TermNodeT ->
           IF node.phrase
           THEN WordPattern(JoinStrings(PhraseWords(node.term), "[[:space:]]+"))
           ELSE WordPattern(ReEscape(node.term))
      [] node.type = AndNodeT -> and_re_pattern(h, node.operands)
      [] node.type = OrNodeT ->
           OrPattern([i \in 1..Len(node.operands) |-> re_pattern(h, node.operands[i])])
      [] OTHER -> re_pattern(h, node.operands[1])

\* AndNode.get_re(operands), lines 259-268
and_re_pattern(h, operands) ==
    IF Len(operands) = 1 THEN re_pattern(h, operands[1])
    ELSE AndPattern(re_pattern(h, operands[1]), and_re_pattern(h, Tail(operands)))

RECURSIVE PatternText(_)
PatternText(p) ==
    CASE p.kind = "word" -> "[[:<:]]" \o p.word
      [] p.kind = "seq" ->
           "(?: " \o PatternText(p.parts[1]) \o " .* " \o PatternText(p.parts[2]) \o " )"
      [] p.kind = "alt" ->
           "(?: " \o JoinStrings([i \in 1..Len(p.parts) |-> PatternText(p.parts[i])],
                                 " | ") \o " )"

\* ParseNode.tsquery (lines 150-158) and ParseNode.re (lines 160-168)
tsquery(h, self) ==
    LET f == filter_tree(h, self, node_is_field_or_noop_name) IN
    IF f.error # "" THEN EmitFails(f.heap, f.error, MsgNoneType)
    ELSE IF f.ret = 0 THEN EmitFails(f.heap, ParseSyntaxError, MsgEmptyQuery)
    ELSE get_tsquery(f.heap, f.ret)

re_of_any_result(h, self) ==
    LET f == filter_tree(h, self, node_is_field_or_noop_or_not_name) IN
    IF f.error # "" THEN EmitFails(f.heap, f.error, MsgNoneType)
    ELSE get_re(f.heap, f.ret)

re(h, self) ==
    LET f == filter_tree(h, self, node_is_field_or_noop_or_not_name) IN
    IF f.error # "" THEN EmitFails(f.heap, f.error, MsgNoneType)
    ELSE IF f.ret = 0 THEN EmitFails(f.heap, ParseSyntaxError, MsgEmptyQuery)
    ELSE get_re(f.heap, f.ret)

(***************************************************************************)
(* Inputs: the token lists __get_tokens can hand to __parse_tokens.        *)
(* parse() wraps the query in "( " and " )"; the tokenizer rejects a text  *)
(* whose parentheses do not return to level zero.                          *)
(***************************************************************************)
MaxLen == 4

TokOpen == Token(<<"(">>, T_OPEN)
TokClose == Token(<<")">>, T_CLOSE)

TokAnd == Token(<<"and">>, T_AND)
TokOr == Token(<<"or">>, T_OR)
TokNot == Token(<<"-">>, T_NOT)
TokPlus == Token(<<"+">>, T_PLUS)
TokNoop == Token(<<NOOP_PLACEHOLDER>>, T_NOOP)
TokTerm(text) == Token(<<text>>, T_TERM)
TokWild(text) == Token(<<text, WILD_PLACEHOLDER>>, T_TERM)
TokPhrase(literal) == Token(<<literal>>, T_PHRASE)
TokField(name) == Token(<<name, FIELD_PLACEHOLDER>>, T_FIELD)

Alphabet ==
    {TokOpen, TokClose, TokAnd, TokOr, TokNot, TokPlus, TokNoop,
     TokTerm("foo"), TokWild("bar"), TokPhrase(PhraseHelloWorld),
     TokField("sentence")}

\* longer queries, beyond MaxLen
\* a and ( b and c )
QueryAndGroup ==
    <<TokTerm("a"), TokAnd, TokOpen, TokTerm("b"), TokAnd, TokTerm("c"), TokClose>>
\* a and b + c
QueryAndPlus == <<TokTerm("a"), TokAnd, TokTerm("b"), TokPlus, TokTerm("c")>>
\* a and ( not f:b ) c
QueryNotField ==
    <<TokTerm("a"), TokAnd, TokOpen, TokNot, TokField("f"), TokTerm("b"), TokClose,
      TokTerm("c")>>
\* ( a or b ) ( c d )
QueryOrGroups ==
    <<TokOpen, TokTerm("a"), TokOr, TokTerm("b"), TokClose,
      TokOpen, TokTerm("c"), TokTerm("d"), TokClose>>

LongQueries == {QueryAndGroup, QueryAndPlus, QueryNotField, QueryOrGroups}

CountType(toks, type) ==
    Cardinality({i \in 1..Len(toks) : toks[i].token_type = type})

\* generate_tokens() ends with its parenthesis level at zero
TokenizerAccepts(toks) == CountType(toks, T_OPEN) = CountType(toks, T_CLOSE)

\* solr_query = "( " + solr_query + " )"
Wrap(toks) == <<TokOpen>> \o toks \o <<TokClose>>

QueriesOver(alphabet, max_len) ==
    {q \in UNION {[1..n -> alphabet] : n \in 0..max_len} : TokenizerAccepts(q)}

Queries == QueriesOver(Alphabet, MaxLen) \cup LongQueries

Unset == [status |-> "unset", text |-> ""]
NotFiltered == [status |-> "unset", ret |-> 0, by |-> NoFilter]
\* The caller's last call: which method, with which predicate, on which node;
\* refilter: the held filter result was filtered with the predicate that made
\* it; same: filter_tree returned the node it was called on.
NoCall ==
    [op |-> "none", filter_function |-> NoFilter, self |-> 0,
     refilter |-> FALSE, same |-> FALSE]

\* before parse() has returned there is no tree to call anything on
NothingCalled ==
    /\ heap = <<>>
    /\ root = 0
    /\ filtered = NotFiltered
    /\ ts_result = Unset
    /\ re_result = Unset
    /\ last = NoCall

Conf == [tokens |-> tokens, stack |-> stack, result |-> result]

Becomes(c) ==
    /\ tokens' = c.tokens
    /\ stack' = c.stack
    /\ result' = c.result
    /\ UNCHANGED <<input, filter_vars>>

Parsing == result.status = "running"

Init ==
    /\ input \in {Wrap(q) : q \in Queries}
    /\ tokens = input
    /\ stack = ParseCall(input).stack
    /\ result = Running
    /\ NothingCalled

LoopEnd == Parsing /\ Branch(Conf) = "loop end" /\ Becomes(OnLoopEnd(Conf))
SkipPlus == Parsing /\ Branch(Conf) = "skip plus" /\ Becomes(OnSkipPlus(Conf))
CheckTypeFails ==
    Parsing /\ Branch(Conf) = "check_type fails" /\ Becomes(OnCheckTypeFails(Conf))
OpenToken == Parsing /\ Branch(Conf) = T_OPEN /\ Becomes(OnOpen(Conf))
CloseToken == Parsing /\ Branch(Conf) = T_CLOSE /\ Becomes(OnClose(Conf))
NoopToken == Parsing /\ Branch(Conf) = T_NOOP /\ Becomes(OnNoop(Conf))
TermToken == Parsing /\ Branch(Conf) = T_TERM /\ Becomes(OnTerm(Conf))
PhraseToken == Parsing /\ Branch(Conf) = T_PHRASE /\ Becomes(OnPhrase(Conf))
BooleanToken == Parsing /\ Branch(Conf) = "boolean" /\ Becomes(OnBoolean(Conf))
FieldToken == Parsing /\ Branch(Conf) = T_FIELD /\ Becomes(OnField(Conf))
NotToken == Parsing /\ Branch(Conf) = T_NOT /\ Becomes(OnNot(Conf))

Next ==
    \/ LoopEnd
    \/ SkipPlus
    \/ CheckTypeFails
    \/ OpenToken
    \/ CloseToken
    \/ NoopToken
    \/ TermToken
    \/ PhraseToken
    \/ BooleanToken
    \/ FieldToken
    \/ NotToken

vars == <<input, tokens, stack, result, heap, root, filtered, ts_result, re_result, last>>

Spec == Init /\ [][Next]_vars


(***************************************************************************)
(* Calls on the tree parse() returned.  The caller holds the tree and the  *)
(* result of its last filter_tree() call; every other node a call made is  *)
(* garbage when the call returns.                                          *)
(***************************************************************************)
MaxFilterLen == 3

FilterAlphabet ==
    {TokOpen, TokClose, TokAnd, TokOr, TokNot, TokNoop,
     TokTerm("foo"), TokPhrase(PhraseEmpty),
     TokField("sentence"), TokField("media_id")}


\* sentence:( foo and bar ) and media_id:1
ScenarioSentenceField ==
    <<TokField("sentence"), TokOpen, TokTerm("foo"), TokAnd, TokTerm("bar"), TokClose,
      TokAnd, TokField("media_id"), TokTerm("1")>>
\* foo:[1 TO 10] and bar
ScenarioRange == <<TokNoop, TokAnd, TokTerm("bar")>>
\* foo and bar and baz
ScenarioThreeAnd == <<TokTerm("foo"), TokAnd, TokTerm("bar"), TokAnd, TokTerm("baz")>>
\* foo and ( media_id:1 or !bar )
ScenarioNested ==
    <<TokTerm("foo"), TokAnd, TokOpen, TokField("media_id"), TokTerm("1"),
      TokOr, TokNot, TokTerm("bar"), TokClose>>

\* foo and ( bar and ( media_id:1 or baz ) )
ScenarioGroups ==
    <<TokTerm("foo"), TokAnd, TokOpen, TokTerm("bar"), TokAnd, TokOpen,
      TokField("media_id"), TokTerm("1"), TokOr, TokTerm("baz"), TokClose, TokClose>>

\* foo and bar
ScenarioTwoAnd == <<TokTerm("foo"), TokAnd, TokTerm("bar")>>
\* bar* "hello world"
ScenarioWildPhrase == <<TokWild("bar"), TokPhrase(PhraseHelloWorld)>>
\* sentence:"hello world" and !bar*
ScenarioSentencePhrase ==
    <<TokField("sentence"), TokPhrase(PhraseHelloWorld), TokAnd, TokNot, TokWild("bar")>>

Scenarios ==
    {ScenarioSentenceField, ScenarioRange, ScenarioThreeAnd, ScenarioNested,
     ScenarioGroups, ScenarioWildPhrase, ScenarioSentencePhrase, ScenarioTwoAnd}

FilterQueries == QueriesOver(FilterAlphabet, MaxFilterLen) \cup Scenarios

\* The nodes the caller can still reach, renumbered in order of their ids
Rank(keep, id) == IF id = 0 THEN 0 ELSE Cardinality({j \in keep : j <= id})

Collect(h, roots) ==
    LET keep == UNION {NodesAt(h, r) : r \in roots}
        ids == SelectSeq([i \in 1..Len(h) |-> i], LAMBDA i : i \in keep)
        rank == [i \in 0..Len(h) |-> Rank(keep, i)]
    IN  IF keep = 1..Len(h) THEN h
        ELSE [k \in 1..Len(ids) |->
                 [h[ids[k]] EXCEPT !.operands =
                     [i \in 1..Len(h[ids[k]].operands) |-> rank[h[ids[k]].operands[i]]]]]

FilterInit ==
    /\ input \in {Wrap(q) : q \in FilterQueries}
    /\ result = RunParse(input)
    /\ result.status = "returned"
    /\ result.tree # None
    /\ tokens = <<>>
    /\ stack = <<>>
    /\ LET l == Load(<<>>, result.tree) IN
       /\ heap = Collect(l.heap, {l.ret})
       /\ root = l.ret
    /\ filtered = NotFiltered
    /\ ts_result = Unset
    /\ re_result = Unset
    /\ last = NoCall

CallRecord(op, filter_function, self, refilter, same) ==
    [op |-> op, filter_function |-> filter_function, self |-> self,
     refilter |-> refilter, same |-> same]

\* held = node.filter_tree(filter_function), on the tree or on the held result
FilterCall(op, self, filter_function) ==
    LET r == filter_tree(heap, self, filter_function)
        keep == UNION {NodesAt(r.heap, root), NodesAt(r.heap, r.ret)}
    IN  /\ heap' = Collect(r.heap, {root, r.ret})
        /\ filtered' = [status |-> IF r.error # "" THEN r.error ELSE "returned",
                        ret |-> Rank(keep, r.ret), by |-> filter_function]
        /\ last' = CallRecord(op, filter_function, self,
                               self # root /\ filter_function = filtered.by,
                               r.error = "" /\ r.ret = self)
        /\ UNCHANGED <<parser_vars, root, ts_result, re_result>>

\* parse() has returned a tree, on which the caller makes its calls
HasTree == result.status = "returned" /\ root # 0

CallFilterTree ==
    /\ HasTree
    /\ \E filter_function \in FilterFunctions :
           FilterCall("filter_tree", root, filter_function)

\* the held result may be None, which has no filter_tree: AttributeError
CallFilterTreeAgain ==
    /\ HasTree
    /\ filtered.status = "returned"
    /\ \E filter_function \in FilterFunctions :
           FilterCall("filter_tree again", filtered.ret, filter_function)

CallTsquery ==
    /\ HasTree
    /\ LET r == tsquery(heap, root) IN
       /\ heap' = Collect(r.heap, {root, filtered.ret})
       /\ ts_result' = [status |-> r.status, text |-> r.text]
       /\ last' = CallRecord("tsquery", node_is_field_or_noop_name, root, FALSE, FALSE)
       /\ UNCHANGED <<parser_vars, root, filtered, re_result>>

CallRe ==
    /\ HasTree
    /\ LET r == re(heap, root) IN
       /\ heap' = Collect(r.heap, {root, filtered.ret})
       /\ re_result' = [status |-> r.status, text |-> r.text]
       /\ last' = CallRecord("re", node_is_field_or_noop_or_not_name, root, FALSE, FALSE)
       /\ UNCHANGED <<parser_vars, root, filtered, ts_result>>

FilterNext ==
    \/ CallFilterTree
    \/ CallFilterTreeAgain
    \/ CallTsquery
    \/ CallRe

FilterSpec == FilterInit /\ [][FilterNext]_vars

\* parse() on the queries of Init, and the calls on the trees of FilterInit
ParseFilterSpec == (Init \/ FilterInit) /\ [][Next \/ FilterNext]_vars


(***************************************************************************)
(* Properties                                                              *)
(***************************************************************************)
ParseReturned == result.status = "returned"

\* C1: parse() never returns None: a query that does not end in a syntax
\* error gives a tree, the empty query and '()' included.
ParseNeverReturnsNone == ParseReturned => result.tree # None

\* C2: parse() fails in one way only, with ParseSyntaxError.
ParseRaisesOnlySyntaxError ==
    result.status \in {"running", "returned", ParseSyntaxError}

\* No And node directly under an And node, no Or node directly under an Or
\* node, at any depth.
RECURSIVE Flattened(_)
Flattened(tree) ==
    \A i \in 1..Len(tree.operands) :
        /\ ~(tree.type \in {AndNodeT, OrNodeT} /\ tree.operands[i].type = tree.type)
        /\ Flattened(tree.operands[i])

\* C3: every tree parse() returns, and every tree filter_tree() returns for
\* it, is flattened: no And directly under And, no Or directly under Or.
AndOrFlattened ==
    /\ ParseReturned => Flattened(result.tree)
    /\ filtered.status = "returned" => Flattened(TreeAt(heap, filtered.ret))

\* C3 witness: 'foo and ( bar and ( media_id:1 or baz ) )' was parsed to one
\* And of three operands (the inner And flattened into it) whose last operand
\* is the Or, and the tsquery filter returned And[foo, bar, Or[baz]].
AndOrFlattenedWitness ==
    /\ input = Wrap(ScenarioGroups)
    /\ result.tree.type = AndNodeT
    /\ Len(result.tree.operands) = 3
    /\ result.tree.operands[3].type = OrNodeT
    /\ last.op = "filter_tree"
    /\ filtered.status = "returned"
    /\ TreeAt(heap, filtered.ret) =
           BooleanNode(AndNodeT, <<TermNode("foo", FALSE, FALSE),
                                   TermNode("bar", FALSE, FALSE),
                                   BooleanNode(OrNodeT, <<TermNode("baz", FALSE, FALSE)>>)>>)


\* Two tokens with no operator between them: the first ends an operand, the
\* second starts one.
EndsOperand(token) == token.token_type \in {T_TERM, T_PHRASE, T_NOOP, T_CLOSE}
StartsOperand(token) ==
    token.token_type \in {T_OPEN, T_PHRASE, T_TERM, T_NOOP, T_FIELD}

\* The query with an OR token written between every two adjacent operands
RECURSIVE ExplicitOr(_)
ExplicitOr(toks) ==
    IF Len(toks) < 2 THEN toks
    ELSE IF EndsOperand(toks[1]) /\ StartsOperand(toks[2])
         THEN <<toks[1], TokOr>> \o ExplicitOr(Tail(toks))
         ELSE <<toks[1]>> \o ExplicitOr(Tail(toks))

\* C4: a query with operands written next to each other parses to the tree
\* of the same query with OR written between them.
ImplicitOrIsExplicitOr ==
    ParseReturned => RunParse(ExplicitOr(input)) = result

\* C5 (as stated): filtering a filter result again with the predicate that
\* made it gives that very result, and a None result stays None.
RefilterReturnsSameOrNone ==
    [][ last'.op = "filter_tree again" /\ last'.refilter =>
            /\ filtered'.status = "returned"
            /\ filtered'.ret = filtered.ret
            /\ filtered.ret # 0 => last'.same
            /\ TreeAt(heap', filtered'.ret) = TreeAt(heap, filtered.ret) ]_vars

\* C5 (amended): filtering a filter result that is a tree again with the
\* predicate that made it returns the very same node, with the tree under it
\* unchanged; a None result has no filter_tree and the call fails with
\* AttributeError.
RefilterReturnsSame ==
    [][ last'.op = "filter_tree again" /\ last'.refilter =>
            IF filtered.ret # 0
            THEN /\ filtered'.status = "returned"
                 /\ filtered'.ret = filtered.ret
                 /\ last'.same
                 /\ TreeAt(heap', filtered'.ret) = TreeAt(heap, filtered.ret)
            ELSE filtered'.status = AttributeError ]_vars

\* C5 witness: a filter result with operands was filtered again with its own
\* predicate and came back as the same node.
RefilterReturnsSameWitness ==
    /\ last.op = "filter_tree again"
    /\ last.refilter
    /\ last.same
    /\ filtered.status = "returned"
    /\ filtered.ret # 0
    /\ Len(heap[filtered.ret].operands) = 2

\* The subtrees of a tree, the tree included
RECURSIVE Subtrees(_)
Subtrees(tree) ==
    {tree} \cup UNION {Subtrees(tree.operands[i]) : i \in 1..Len(tree.operands)}

\* The nodes each backend removes
RemovedForTsquery(node) ==
    \/ node.type = NoopNodeT
    \/ node.type = FieldNodeT /\ node.field # "sentence"

RemovedForRe(node) == RemovedForTsquery(node) \/ node.type = NotNodeT

RemovedBy(filter_function, node) ==
    IF filter_function = node_is_field_or_noop_name
    THEN RemovedForTsquery(node)
    ELSE RemovedForRe(node)

\* C6: a tree the tsquery filter returns has no Noop and no non-sentence
\* Field node, a tree the regex filter returns has no Not node either, and
\* tsquery() and re() never end in a 'should have been filtered' error, nor
\* re() in 'not operations not supported'.
FilterSound ==
    /\ filtered.status = "returned" /\ filtered.ret # 0 =>
           \A node \in Subtrees(TreeAt(heap, filtered.ret)) :
               ~RemovedBy(filtered.by, node)
    /\ ts_result.status # ValueError
    /\ ts_result.text \notin {MsgFieldNotFiltered, MsgNoopNotFiltered}
    /\ re_result.status # ValueError
    /\ re_result.text \notin {MsgFieldNotFiltered, MsgNoopNotFiltered, MsgNotInRe}

\* C6 witness: 'foo and ( media_id:1 or !bar )', with a non-sentence Field
\* and a Not, went through the regex filter, tsquery() and re().
FilterSoundWitness ==
    /\ input = Wrap(ScenarioNested)
    /\ last.op = "filter_tree"
    /\ filtered.by = node_is_field_or_noop_or_not_name
    /\ filtered.status = "returned"
    /\ TreeAt(heap, filtered.ret) = BooleanNode(AndNodeT, <<TermNode("foo", FALSE, FALSE)>>)
    /\ ts_result.status = "returned"
    /\ re_result.status = "returned"


TsqueryOf(text) == [status |-> "returned", text |-> text]

\* C7 (as stated): an And or Or left with one operand is emitted as that
\* operand's text alone; 'sentence:( foo and bar ) and media_id:1' gives
\* '( foo & bar )' and 'foo:[1 TO 10] and bar' gives 'bar'.
SingleOperandCollapses ==
    ts_result.status = "returned" =>
        /\ LET f == filter_tree(heap, root, node_is_field_or_noop_name)
               node == f.heap[f.ret]
           IN  node.type \in {AndNodeT, OrNodeT} /\ Len(node.operands) = 1 =>
                   ts_result.text = get_tsquery(f.heap, node.operands[1]).text
        /\ input = Wrap(ScenarioSentenceField) => ts_result = TsqueryOf("( foo & bar )")
        /\ input = Wrap(ScenarioRange) => ts_result = TsqueryOf("bar")

\* C7 (amended): an And or Or left with one operand is emitted as that
\* operand's text inside its own pair of parentheses;
\* 'sentence:( foo and bar ) and media_id:1' gives '( ( foo & bar ) )' and
\* 'foo:[1 TO 10] and bar' gives '( bar )'.
SingleOperandInParentheses ==
    ts_result.status = "returned" =>
        /\ LET f == filter_tree(heap, root, node_is_field_or_noop_name)
               node == f.heap[f.ret]
           IN  node.type \in {AndNodeT, OrNodeT} /\ Len(node.operands) = 1 =>
                   ts_result.text =
                       "( " \o get_tsquery(f.heap, node.operands[1]).text \o " )"
        /\ input = Wrap(ScenarioSentenceField) => ts_result = TsqueryOf("( ( foo & bar ) )")
        /\ input = Wrap(ScenarioRange) => ts_result = TsqueryOf("( bar )")

\* C7 witness: tsquery() has returned for
\* 'sentence:( foo and bar ) and media_id:1', whose filtered tree is an And
\* with the sentence Field as its one operand.
SingleOperandWitness ==
    /\ input = Wrap(ScenarioSentenceField)
    /\ ts_result.status = "returned"
    /\ LET f == filter_tree(heap, root, node_is_field_or_noop_name)
       IN  /\ f.heap[f.ret].type = AndNodeT
           /\ Len(f.heap[f.ret].operands) = 1

\* Some Term leaf of the tree lies neither at nor below a removed node
RECURSIVE HasFreeTerm(_, _)
HasFreeTerm(tree, filter_function) ==
    IF tree = None \/ RemovedBy(filter_function, tree) THEN FALSE
    ELSE IF tree.type = TermNodeT THEN TRUE
    ELSE \E i \in 1..Len(tree.operands) : HasFreeTerm(tree.operands[i], filter_function)

\* Some operand of the tree is absent (an empty group was its operand) and
\* lies below no removed node
RECURSIVE HasFreeNone(_, _)
HasFreeNone(tree, filter_function) ==
    IF tree = None THEN TRUE
    ELSE IF RemovedBy(filter_function, tree) THEN FALSE
    ELSE \E i \in 1..Len(tree.operands) : HasFreeNone(tree.operands[i], filter_function)

\* Some phrase without words is a Term leaf below no removed node
RECURSIVE HasFreeEmptyPhrase(_, _)
HasFreeEmptyPhrase(tree, filter_function) ==
    IF tree = None \/ RemovedBy(filter_function, tree) THEN FALSE
    ELSE IF tree.type = TermNodeT THEN tree.phrase /\ PhraseWords(tree.term) = <<>>
    ELSE \E i \in 1..Len(tree.operands) :
             HasFreeEmptyPhrase(tree.operands[i], filter_function)

EmptyQueryError == [status |-> ParseSyntaxError, text |-> MsgEmptyQuery]

CallsLeaveTreeUnchanged ==
    [][ /\ root' = root
        /\ TreeAt(heap', root') = TreeAt(heap, root)
        /\ TreeAt(heap', root') = result.tree
        /\ \A id \in NodesAt(heap', root') : heap'[id] = heap[id]
        /\ NodesAt(heap', root') \cap NodesAt(heap', filtered'.ret) = {}
        /\ ts_result.status # "unset" => ts_result' = ts_result
        /\ re_result.status # "unset" => re_result' = re_result ]_vars

\* C9 witness: on 'foo and ( media_id:1 or !bar )' the regex filter removed
\* the whole group, tsquery() and re() have returned, and the tree is still
\* the one parse() returned.
CallsLeaveTreeUnchangedWitness ==
    /\ input = Wrap(ScenarioNested)
    /\ last.op = "re"
    /\ filtered.status = "returned"
    /\ filtered.by = node_is_field_or_noop_or_not_name
    /\ Len(heap[filtered.ret].operands) = 1
    /\ ts_result.status = "returned"
    /\ re_result.status = "returned"
    /\ Len(heap[root].operands) = 2
    /\ TreeAt(heap, root) = result.tree

\* The query with AND written for every PLUS that follows a term, a phrase
\* or a noop
PlusAsAnd(toks) ==
    [i \in 1..Len(toks) |->
        IF /\ i > 1
           /\ toks[i].token_type = T_PLUS
           /\ toks[i - 1].token_type \in {T_TERM, T_PHRASE, T_NOOP}
        THEN TokAnd
        ELSE toks[i]]

\* C10: a PLUS that is not the first token of a clause and does not follow
\* an AND or OR token gives the tree an AND in its place gives, as in
\* 'a and b + c' and 'a and b and c'.
PlusIsAnd ==
    ParseReturned => RunParse(PlusAsAnd(input)) = result


\* The invocation was entered at an OPEN token: a group (line 406), the
\* group of a field (line 447) or the group of a NOT (line 460)
EnteredAtOpen(f) == f.site = "open" \/ (f.site \in {"field", "not"} /\ ~f.own)

\* Every CLOSE of the token list has its OPEN before it and every OPEN its
\* CLOSE after it
RECURSIVE NestedFrom(_, _)
NestedFrom(toks, depth) ==
    IF toks = <<>> THEN depth = 0
    ELSE IF Head(toks).token_type = T_OPEN THEN NestedFrom(Tail(toks), depth + 1)
    ELSE IF Head(toks).token_type = T_CLOSE
    THEN depth > 0 /\ NestedFrom(Tail(toks), depth - 1)
    ELSE NestedFrom(Tail(toks), depth)

ProperlyNested(toks) == NestedFrom(toks, 0)

\* C11: in a query with balanced parentheses every CLOSE token ends the
\* invocation that was entered at an OPEN token (its matching one, as the
\* invocations nest), never the sub-parse of a NOT's field operand.
CloseEndsItsGroup ==
    [][ CloseToken /\ ProperlyNested(input) => EnteredAtOpen(Top(Conf)) ]_vars


\* Every And/Or below has an operand, and every operand is a node
RECURSIVE WellFormed(_)
WellFormed(tree) ==
    /\ tree.type \in {AndNodeT, OrNodeT} => Len(tree.operands) >= 1
    /\ \A i \in 1..Len(tree.operands) :
           tree.operands[i] # None /\ WellFormed(tree.operands[i])

\* C12: in every tree parse() returns, every And/Or has at least one
\* operand and no operand of an And, Or, Not or Field is None, also when an
\* empty group is the right operand of AND/OR.
ParsedTreeWellFormed ==
    ParseReturned /\ result.tree # None => WellFormed(result.tree)


\* The regex-filtered tree of the tree parse() returned, and its regex
RegexTree == filter_tree(heap, root, node_is_field_or_noop_or_not_name)
RegexPattern == re_pattern(RegexTree.heap, RegexTree.ret)

\* re() returns the text of the pattern
PatternIsEmittedText ==
    re_result.status = "returned" => re_result.text = PatternText(RegexPattern)

\* Where a pattern matches in a text of words, as <<first word, last word>>.
\* The pattern is read in expanded syntax (the blanks of lines 268 and 281
\* match nothing); a word pattern matches at a word, `x .* y` matches x, any
\* words, then y.
RECURSIVE Spans(_, _)
Spans(p, text) ==
    CASE p.kind = "word" -> {<<i, i>> : i \in {j \in 1..Len(text) : text[j] = p.word}}
      [] p.kind = "seq" ->
           {<<s[1], t[2]>> : <<s, t>> \in
               {st \in Spans(p.parts[1], text) \X Spans(p.parts[2], text) :
                   st[1][2] < st[2][1]}}
      [] p.kind = "alt" -> UNION {Spans(p.parts[i], text) : i \in 1..Len(p.parts)}

Matches(p, text) == Spans(p, text) # {}

\* An And of two or more different plain terms, and the texts that hold
\* each of its terms once, in every order
IsAndOfTerms(h, id) ==
    /\ h[id].type = AndNodeT
    /\ Len(h[id].operands) >= 2
    /\ \A i \in 1..Len(h[id].operands) :
           /\ h[h[id].operands[i]].type = TermNodeT
           /\ ~h[h[id].operands[i]].phrase
           /\ \A j \in 1..Len(h[id].operands) :
                  h[h[id].operands[i]].term = h[h[id].operands[j]].term => i = j

OrdersOf(h, id) ==
    {[i \in 1..Len(h[id].operands) |-> h[h[id].operands[order[i]]].term] :
        order \in Permutations(1..Len(h[id].operands))}

\* C13: the regex re() returns for an And of k >= 2 operands matches the
\* operands in every one of their k! orders, also the orders that put the
\* first operand between two later ones.
RegexAndCoversAllOrders ==
    re_result.status = "returned" /\ IsAndOfTerms(RegexTree.heap, RegexTree.ret) =>
        \A text \in OrdersOf(RegexTree.heap, RegexTree.ret) :
            Matches(RegexPattern, text)

=============================================================================
